---- MODULE Spec2Model ----
(***************************************************************************)
(* State-machine model of consumers/consumer_gbogbo.py: a consumer that    *)
(* tails a growing file of JSON lines, normalizes each record and stores   *)
(* it in an SQLite database (master table, per-category tables, category   *)
(* statistics).                                                            *)
(*                                                                         *)
(* Text is modelled as a sequence of one-character strings, a Python or    *)
(* JSON value as a tagged record, the source file as a sequence of units   *)
(* (a unit is a fixed block of bytes: the first or second half of a JSON   *)
(* object, a non-JSON block, a blank, or the line terminator), and a file  *)
(* offset as a number of units.  Sentiments are counted in tenths.         *)
(***************************************************************************)
EXTENDS Integers, Sequences, FiniteSets, TLC

\* ------------------------------------------------------------------ bounds
\* Units that the producer appends to the source file during a run.
MaxUnits == 6

\* Whole lines that the producer appends during a run of whole lines.
MaxRecords == 10

\* ------------------------------------------------------------ Python values
Num(n) == [t |-> "num", n |-> n, s |-> <<>>]
Str(s) == [t |-> "str", n |-> 0, s |-> s]
None == [t |-> "none", n |-> 0, s |-> <<>>]
\* A key that the JSON object does not hold.
Absent == [t |-> "absent", n |-> 0, s |-> <<>>]

\* dict.get(key): None when the key is absent.
Get(v) == IF v.t = "absent" THEN None ELSE v
\* dict.get(key, default).
GetDefault(v, default) == IF v.t = "absent" THEN default ELSE v

\* The literal "other" of message.get("category", "other").
DefaultCategory == Str(<<"o", "t", "h", "e", "r">>)
\* The literal 0.0 of message.get("sentiment", 0.0).
DefaultSentiment == Num(0)
\* The literal "" of message.get("keyword_mentioned", "").
DefaultKeyword == Str(<<>>)
\* The literal 0 of message.get("message_length", 0).
DefaultLength == Num(0)

\* Digit strings that float() and int() accept, with their values.
DigitValue(c) ==
    CASE c = "0" -> 0 [] c = "1" -> 1 [] c = "2" -> 2 [] c = "3" -> 3
      [] c = "4" -> 4 [] c = "5" -> 5 [] c = "6" -> 6 [] c = "7" -> 7
      [] c = "8" -> 8 [] c = "9" -> 9 [] OTHER -> -1

RECURSIVE DigitsValue(_)
DigitsValue(s) ==
    IF s = <<>> THEN 0
    ELSE 10 * DigitsValue(SubSeq(s, 1, Len(s) - 1)) + DigitValue(s[Len(s)])

IsDigits(s) == s # <<>> /\ \A i \in 1..Len(s) : DigitValue(s[i]) >= 0

\* float(x) and int(x): a number converts, a string converts when it spells
\* a number, anything else raises (TypeError or ValueError).
Converts(v) == v.t = "num" \/ (v.t = "str" /\ IsDigits(v.s))
ToNumber(v) == IF v.t = "num" THEN v ELSE Num(DigitsValue(v.s))

\* x[:50] raises TypeError unless x is a string.
Sliceable(v) == v.t = "str"

\* ------------------------------------------------------------------- text
\* The characters of this model in code-point order.
Chars ==
    <<" ", "!", "-",
      "0", "1", "2", "3", "4", "5", "6", "7", "8", "9",
      "A", "B", "C", "D", "E", "F", "G", "H", "I", "J", "K", "L", "M",
      "N", "O", "P", "Q", "R", "S", "T", "U", "V", "W", "X", "Y", "Z",
      "_",
      "a", "b", "c", "d", "e", "f", "g", "h", "i", "j", "k", "l", "m",
      "n", "o", "p", "q", "r", "s", "t", "u", "v", "w", "x", "y", "z">>

\* The code point of each character (its place in Chars).
CodePoints ==
    [c \in {Chars[i] : i \in 1..Len(Chars)} |->
        CHOOSE i \in 1..Len(Chars) : Chars[i] = c]

Code(c) == CodePoints[c]

IsUpper(c) == Code("A") <= Code(c) /\ Code(c) <= Code("Z")

\* str.lower() on one character.
Lower(c) == IF IsUpper(c) THEN Chars[Code(c) - Code("A") + Code("a")] ELSE c

\* str.replace(old, new) on one character.
Replace(c, old, new) == IF c = old THEN new ELSE c

\* Text comparison as SQLite's BINARY collation orders it.
TextLess(a, b) ==
    \/ Len(a) < Len(b) /\ SubSeq(b, 1, Len(a)) = a
    \/ \E i \in 1..Len(a) :
          /\ i <= Len(b)
          /\ SubSeq(a, 1, i - 1) = SubSeq(b, 1, i - 1)
          /\ Code(a[i]) < Code(b[i])

\* category.replace(' ', '_').replace('-', '_').lower()
safe_category(category) ==
    [i \in 1..Len(category) |->
        Lower(Replace(Replace(category[i], " ", "_"), "-", "_"))]

\* f"category_{safe_category}"
table_name(category) ==
    <<"c", "a", "t", "e", "g", "o", "r", "y", "_">> \o safe_category(category)

\* Mutant: insert_message's copy of the expression without .lower().
insert_message_keeps_case(category) ==
    [i \in 1..Len(category) |-> Replace(Replace(category[i], " ", "_"), "-", "_")]

\* insert_message's own copy of the expression, for the INSERT into the
\* category table: category.replace(' ', '_').replace('-', '_').lower()
insert_message_safe_category(category) ==
    [i \in 1..Len(category) |->
        Lower(Replace(Replace(category[i], " ", "_"), "-", "_"))]

\* insert_message's f"category_{safe_category}"
insert_message_table_name(category) ==
    <<"c", "a", "t", "e", "g", "o", "r", "y", "_">>
        \o insert_message_safe_category(category)

\* The name of the statistics table created by init_db.
StatsTable ==
    <<"c", "a", "t", "e", "g", "o", "r", "y", "_", "s", "t", "a", "t", "s">>

\* Whether SQLite parses the unquoted name as one identifier.
IsIdentifier(name) ==
    \A i \in 1..Len(name) :
        \/ name[i] = "_"
        \/ Code("0") <= Code(name[i]) /\ Code(name[i]) <= Code("9")
        \/ Code("A") <= Code(name[i]) /\ Code(name[i]) <= Code("Z")
        \/ Code("a") <= Code(name[i]) /\ Code(name[i]) <= Code("z")

\* ------------------------------------------------------ decoded JSON lines
Dict(message, author, timestamp, category, sentiment, keyword, length) ==
    [message |-> message, author |-> author, timestamp |-> timestamp,
     category |-> category, sentiment |-> sentiment,
     keyword_mentioned |-> keyword, message_length |-> length]

Humor == Str(<<"h", "u", "m", "o", "r">>)
News == Str(<<"n", "e", "w", "s">>)
Alice == Str(<<"A", "l">>)
Bob == Str(<<"B", "o">>)
Hi == Str(<<"h", "i">>)
Meme == Str(<<"m", "e", "m", "e">>)
T1 == Str(<<"1">>)
T2 == Str(<<"2">>)
PopCulture == Str(<<"P", "o", "p", " ", "C", "u", "l", "t", "u", "r", "e">>)
pop_culture == Str(<<"p", "o", "p", "-", "c", "u", "l", "t", "u", "r", "e">>)
ESports == Str(<<"E", "-", "S", "p", "o", "r", "t", "s">>)
MemeBang == Str(<<"M", "e", "m", "e", "!">>)

\* The JSON objects that the producer writes.
Payloads ==
    << Dict(Hi, Alice, T1, Humor, Num(8), Meme, Num(2)),
       Dict(Hi, Bob, T2, News, Num(2), Meme, Num(2)),
       Dict(Hi, Bob, T2, Humor, Str(<<"6">>), Absent, Str(<<"2">>)),
       Dict(Hi, Absent, T1, Humor, Num(8), Meme, Num(2)),
       Dict(Absent, Alice, T1, News, Num(8), Meme, Num(2)),
       Dict(Hi, Alice, T1, Humor, Str(<<"h", "i">>), Meme, Num(2)),
       Dict(Hi, Alice, T1, News, Num(8), Meme, Str(<<"h", "i">>)),
       Dict(Hi, Alice, T1, Absent, Absent, Absent, Absent),
       Dict(Hi, Alice, T1, PopCulture, Num(8), Meme, Num(2)),
       Dict(Hi, Bob, T2, pop_culture, Num(2), Meme, Num(2)),
       Dict(Hi, Bob, T2, ESports, Num(2), Meme, Num(2)),
       Dict(Hi, Alice, T1, MemeBang, Num(8), Meme, Num(2)) >>

\* ------------------------------------------------------------ source file
Unit(k, r) == [k |-> k, r |-> r]
NL == Unit("nl", 0)
SP == Unit("sp", 0)
Junk == Unit("junk", 0)
HeadOf(r) == Unit("head", r)
TailOf(r) == Unit("tail", r)

IsSpace(u) == u.k = "nl" \/ u.k = "sp"

\* The next line of file f from offset p, as file iteration returns it: up
\* to and including the next terminator, or up to the end of the file.
ReadLine(f, p) ==
    LET ends == {q \in (p + 1)..Len(f) : f[q].k = "nl"}
        last == IF ends = {} THEN Len(f)
                ELSE CHOOSE q \in ends : \A x \in ends : q <= x
    IN  SubSeq(f, p + 1, last)

\* str.strip(): the line without its leading and trailing whitespace.
Strip(line) ==
    LET solid == {i \in 1..Len(line) : ~IsSpace(line[i])}
    IN  IF solid = {} THEN <<>>
        ELSE SubSeq(line,
                    CHOOSE i \in solid : \A x \in solid : i <= x,
                    CHOOSE i \in solid : \A x \in solid : x <= i)

\* Whether json.loads accepts the text: the two halves of one object.
IsJson(text) ==
    /\ Len(text) = 2
    /\ text[1].k = "head"
    /\ text[2].k = "tail"
    /\ text[1].r = text[2].r

\* json.loads(text) for a text that it accepts.
json_loads(text) == Payloads[text[1].r]

\* The first units of the lines that a producer writes, by kind of run.
Workloads ==
    { {HeadOf(1), HeadOf(2), HeadOf(3)},
      {HeadOf(1), HeadOf(4), Junk},
      {HeadOf(2), HeadOf(5), HeadOf(6), HeadOf(7)},
      {HeadOf(8), SP, NL},
      {HeadOf(9), HeadOf(10), HeadOf(11), HeadOf(12)} }

\* --------------------------------------------------------- process_message
\* Mutant: a value that float() or int() refuses does not raise.
process_message_skips_conversion(message) == ~Sliceable(Get(message.message))

\* Whether the body of process_message raises (float(), int() or the slice
\* of the message for the log line), so that it returns None.
process_message_raises(message) ==
    \/ ~Converts(GetDefault(message.sentiment, DefaultSentiment))
    \/ ~Converts(GetDefault(message.message_length, DefaultLength))
    \/ ~Sliceable(Get(message.message))

\* The dictionary that process_message returns when nothing raises.
process_message(message) ==
    [message |-> Get(message.message),
     author |-> Get(message.author),
     timestamp |-> Get(message.timestamp),
     category |-> GetDefault(message.category, DefaultCategory),
     sentiment |-> ToNumber(GetDefault(message.sentiment, DefaultSentiment)),
     keyword_mentioned |-> GetDefault(message.keyword_mentioned, DefaultKeyword),
     message_length |-> ToNumber(GetDefault(message.message_length, DefaultLength))]

\* ---------------------------------------------------------------- storage
\* The database right after init_db on a deleted file: an empty master
\* table, an empty statistics table and no category table.  `tables` maps
\* the name of each category table to its rows, `category_stats` maps each
\* category (the primary key) to its row.
init_db ==
    [all_messages |-> <<>>,
     tables |-> [n \in {} |-> <<>>],
     category_stats |-> [c \in {} |-> <<>>]]

\* Whether create_category_table raises: the label is no string (the call
\* of .replace fails), the table name is no SQL identifier, or the name is
\* the statistics table's, which has no timestamp column to index.
create_category_table_raises(category) ==
    \/ category.t # "str"
    \/ ~IsIdentifier(table_name(category.s))
    \/ table_name(category.s) = StatsTable

\* Mutant: the table is created anew on every call (DROP TABLE, then
\* CREATE TABLE), so that an existing table loses its rows.
create_category_table_anew(d, category) ==
    LET name == table_name(category.s)
    IN  [d EXCEPT !.tables =
            [n \in DOMAIN @ \cup {name} |-> IF n = name THEN <<>> ELSE @[n]]]

\* CREATE TABLE IF NOT EXISTS category_<safe>, then commit.
create_category_table(d, category) ==
    LET name == table_name(category.s)
    IN  [d EXCEPT !.tables =
            [n \in DOMAIN @ \cup {name} |-> IF n \in DOMAIN @ THEN @[n] ELSE <<>>]]

\* Whether the INSERT into all_messages violates a NOT NULL constraint.
master_insert_raises(m) ==
    \/ m.message.t = "none"
    \/ m.author.t = "none"
    \/ m.timestamp.t = "none"
    \/ m.category.t = "none"

\* INSERT INTO all_messages (...) VALUES (...), with the next row id.
InsertMaster(d, m) ==
    [d EXCEPT !.all_messages =
        Append(@, [id |-> Len(@) + 1,
                   message |-> m["message"],
                   author |-> m["author"],
                   timestamp |-> m["timestamp"],
                   category |-> m["category"],
                   sentiment |-> m["sentiment"],
                   keyword_mentioned |-> m["keyword_mentioned"],
                   message_length |-> m["message_length"]])]

\* Mutant: the new row of the category table goes before the rows that the
\* table holds.
InsertPartitionAtFront(d, m, category) ==
    LET name == insert_message_table_name(category.s)
    IN  [d EXCEPT !.tables =
            [n \in DOMAIN @ |->
                IF n = name
                THEN <<[id |-> Len(@[n]) + 1,
                        message |-> m["message"],
                        author |-> m["author"],
                        timestamp |-> m["timestamp"],
                        sentiment |-> m["sentiment"],
                        keyword_mentioned |-> m["keyword_mentioned"],
                        message_length |-> m["message_length"]]>> \o @[n]
                ELSE @[n]]]

\* Whether the INSERT into the category table raises: the table that it
\* names is not the one that create_category_table has just ensured.
partition_insert_raises(m) ==
    insert_message_table_name(m.category.s) # table_name(m.category.s)

\* INSERT INTO category_<safe> (...) VALUES (...), with the next row id.
InsertPartition(d, m, category) ==
    LET name == insert_message_table_name(category.s)
    IN  [d EXCEPT !.tables =
            [n \in DOMAIN @ |->
                IF n = name
                THEN Append(@[n], [id |-> Len(@[n]) + 1,
                                   message |-> m["message"],
                                   author |-> m["author"],
                                   timestamp |-> m["timestamp"],
                                   sentiment |-> m["sentiment"],
                                   keyword_mentioned |-> m["keyword_mentioned"],
                                   message_length |-> m["message_length"]])
                ELSE @[n]]]

RECURSIVE SumSentiment(_)
SumSentiment(rows) ==
    IF rows = <<>> THEN 0 ELSE Head(rows).sentiment.n + SumSentiment(Tail(rows))

\* ... FROM all_messages WHERE category = ?
RowsOf(d, category) == SelectSeq(d.all_messages, LAMBDA r : r.category = category)

\* SELECT AVG(sentiment) FROM all_messages WHERE category = ?, as the exact
\* quotient num / den.
AvgSentiment(d, category) ==
    [num |-> SumSentiment(RowsOf(d, category)), den |-> Len(RowsOf(d, category))]

\* Mutant: the count restarts at 1 on every replacement of the row.
NextCountRestarts(d, category) == 1

\* COALESCE((SELECT message_count FROM category_stats WHERE category = ?), 0) + 1
NextCount(d, category) ==
    (IF category \in DOMAIN d.category_stats
     THEN d.category_stats[category].message_count ELSE 0) + 1

\* Mutant: the statistics row is keyed by the normalized label, as the
\* category tables are.
UpdateStatsByIdentifier(d, category) ==
    LET key == Str(safe_category(category.s))
        row == [message_count |-> NextCount(d, key),
                avg_sentiment |-> AvgSentiment(d, category)]
    IN  [d EXCEPT !.category_stats =
            [c \in DOMAIN @ \cup {key} |-> IF c = key THEN row ELSE @[c]]]

\* INSERT OR REPLACE INTO category_stats (...)
UpdateStats(d, category) ==
    LET row == [message_count |-> NextCount(d, category),
                avg_sentiment |-> AvgSentiment(d, category)]
    IN  [d EXCEPT !.category_stats =
            [c \in DOMAIN @ \cup {category} |-> IF c = category THEN row ELSE @[c]]]

\* --------------------------------------------------------- insert_message
\* The points of insert_message at which the call can stop: in
\* create_category_table, at the INSERT into all_messages, at the INSERT
\* into the category table, at the statistics update, at conn.commit(), and
\* at the log line after the commit.  ReturnPoint is the normal return.
AtCreate == 1
AtMaster == 2
AtPartition == 3
AtStats == 4
AtCommit == 5
AtLog == 6
ReturnPoint == 7

\* What happens to a call from outside: nothing, sqlite3 raising at a
\* statement (a storage fault), or KeyboardInterrupt arriving at a point.
NoEvent == [kind |-> "none", at |-> ReturnPoint]
Events ==
    {NoEvent}
        \cup {[kind |-> "fault", at |-> k] : k \in AtCreate..AtCommit}
        \cup {[kind |-> "interrupt", at |-> k] : k \in AtCreate..AtLog}

\* The first point at which the data itself makes a statement raise.
RaisePoint(m) ==
    IF create_category_table_raises(m.category) THEN AtCreate
    ELSE IF master_insert_raises(m) THEN AtMaster
    ELSE IF partition_insert_raises(m) THEN AtPartition
    ELSE ReturnPoint

\* The point at which the call stops, and what it stops with.
StopPoint(m, e) == IF e.at <= RaisePoint(m) THEN e.at ELSE RaisePoint(m)
Raised(m, e) ==
    IF e.at <= RaisePoint(m) THEN e.kind
    ELSE IF RaisePoint(m) < ReturnPoint THEN "fault" ELSE "none"

\* The connection's view of the database once the statements before point
\* k have run, starting from database d.
Work(d, m, k) ==
    LET a == IF k > AtMaster THEN InsertMaster(d, m) ELSE d
        b == IF k > AtPartition THEN InsertPartition(a, m, m.category) ELSE a
    IN  IF k > AtStats THEN UpdateStats(b, m.category) ELSE b

\* Mutant: the statements run so far stay in the database.
RollbackKeepsWork(before, work) == work

\* `with sqlite3.connect(...) as conn`: an exception that leaves the block
\* rolls the open transaction back.
Rollback(before, work) == before

\* conn.commit(): the statements of the transaction become the database.
Commit(before, work) == work

\* The database after insert_message(m) on database d under event e.
insert_message(d, m, e) ==
    LET k == StopPoint(m, e)
        ensured == IF k > AtCreate THEN create_category_table(d, m.category) ELSE d
    IN  IF k = AtCreate THEN d
        ELSE IF k <= AtCommit THEN Rollback(ensured, Work(ensured, m, k))
        ELSE Commit(ensured, Work(ensured, m, k))

\* ------------------------------------------------- get_category_analytics
Categories(d) == {d.all_messages[i].category : i \in 1..Len(d.all_messages)}

\* MAX(timestamp) over the rows of a category.
LatestTimestamp(rows) ==
    LET ts == {rows[i].timestamp : i \in 1..Len(rows)}
    IN  CHOOSE t \in ts : \A u \in ts : ~TextLess(t.s, u.s)

\* One row of the GROUP BY category.
AnalyticsRow(d, category) ==
    LET rows == RowsOf(d, category)
    IN  [category |-> category,
         message_count |-> Len(rows),
         avg_sentiment |-> AvgSentiment(d, category),
         unique_authors |-> Cardinality({rows[i].author : i \in 1..Len(rows)}),
         latest_message |-> LatestTimestamp(rows)]

\* ORDER BY message_count DESC: the order of two rows of equal count is
\* left to SQLite.
OrderedByCount(rows) ==
    \A i, j \in 1..Len(rows) :
        i < j => rows[i].message_count >= rows[j].message_count

\* The lists that the query of get_category_analytics can return.
get_category_analytics(d) ==
    LET groups == {AnalyticsRow(d, c) : c \in Categories(d)}
        n == Cardinality(groups)
    IN  {rows \in [1..n -> groups] :
            /\ \A i, j \in 1..n : i # j => rows[i] # rows[j]
            /\ OrderedByCount(rows)}

\* ------------------------------------------------------------------ state
VARIABLES
    pc,                 \* where main is: "config", "unlink", "init", "poll"
                        \* (about to call consume_messages_from_file, after
                        \* the sleep if it has returned from it before),
                        \* "drain", "interrupted", "exited"
    exit_code,          \* the process's exit status, -1 while it runs
    file,               \* the source file's content
    written,            \* units the producer has appended
    truncated,          \* history: the file has been cut short
    workload,           \* the kinds of line that the producer writes
    source,             \* whether the source file can be opened: "present",
                        \* "absent" (no such file) or "unreadable"
    db,                 \* the committed content of the SQLite database
    last_position,      \* main's last_position
    pos,                \* the open file's read position during a poll
    messages_processed, \* consume_messages_from_file's local counter
    periodic_reports,   \* analytics blocks logged by the every-10th branch
    final_reports,      \* final analytics blocks logged by main
    final_report,       \* the rows of the final analytics block
    delivered,          \* history: the lines handed to json.loads
    last                \* history: the latest line that the loop handled

vars ==
    <<pc, exit_code, file, written, truncated, workload, source, db,
      last_position, pos,
      messages_processed, periodic_reports, final_reports, final_report,
      delivered, last>>

\* A database file left by an earlier run.
PriorDb ==
    insert_message(init_db, process_message(Payloads[2]), NoEvent)

\* if messages_processed % 10 == 0
ReportEvery == 10

NoLine ==
    [outcome |-> "none", text |-> <<>>, end |-> 0, pre |-> init_db, count |-> 0,
     stop |-> 0]

Start(workloads) ==
    /\ pc = "config"
    /\ exit_code = -1
    /\ file = <<>>
    /\ written = 0
    /\ truncated = FALSE
    /\ workload \in workloads
    /\ source = "present"
    /\ db \in {init_db, PriorDb}
    /\ last_position = 0
    /\ pos = 0
    /\ messages_processed = 0
    /\ periodic_reports = 0
    /\ final_reports = 0
    /\ final_report = <<>>
    /\ delivered = <<>>
    /\ last = NoLine

Init == Start(Workloads)

\* --------------------------------------------------------------- producer
\* The consumer process is alive and has not been interrupted: what the
\* producer does to the file later is not seen by this run.
Running == pc \notin {"interrupted", "exited"}

\* The producer's file is where the consumer looks for it.
Present == source = "present"

\* Whether file f ends with a terminator (or is empty).
AtLineStart(f) == IF f = <<>> THEN TRUE ELSE f[Len(f)].k = "nl"

\* The producer starts a line: the first half of an object, a non-JSON
\* block, a blank, or an empty line.
ProducerStartsLine ==
    /\ Running
    /\ Present
    /\ written < MaxUnits
    /\ AtLineStart(file)
    /\ \E u \in workload : file' = Append(file, u)
    /\ written' = written + 1
    /\ UNCHANGED <<workload, source, pc, exit_code, truncated, db, last_position, pos,
                   messages_processed, periodic_reports, final_reports,
                   final_report, delivered, last>>

\* The producer writes the next piece of the line that it has started.
ProducerContinuesLine ==
    /\ Running
    /\ Present
    /\ written < MaxUnits
    /\ file # <<>>
    /\ file[Len(file)].k # "nl"
    /\ file' = Append(file, IF file[Len(file)].k = "head"
                            THEN TailOf(file[Len(file)].r) ELSE NL)
    /\ written' = written + 1
    /\ UNCHANGED <<workload, source, pc, exit_code, truncated, db, last_position, pos,
                   messages_processed, periodic_reports, final_reports,
                   final_report, delivered, last>>

\* The producer appends a whole line, an object and its terminator, in one
\* write.
ProducerWritesLine ==
    /\ Running
    /\ Present
    /\ written < MaxRecords
    /\ \E u \in workload :
          /\ u.k = "head"
          /\ file' = file \o <<u, TailOf(u.r), NL>>
    /\ written' = written + 1
    /\ UNCHANGED <<workload, source, pc, exit_code, truncated, db, last_position,
                   pos, messages_processed, periodic_reports, final_reports,
                   final_report, delivered, last>>

\* The file is cut short (or replaced by a shorter one) while the consumer
\* tails it.
Truncate ==
    /\ Running
    /\ Present
    /\ \E n \in 0..(Len(file) - 1) : file' = SubSeq(file, 1, n)
    /\ truncated' = TRUE
    /\ UNCHANGED <<workload, source, pc, exit_code, written, db, last_position, pos,
                   messages_processed, periodic_reports, final_reports,
                   final_report, delivered, last>>

\* Between two polls the file is removed or renamed, or becomes unreadable
\* (its permissions change, or its path is taken by a directory): the
\* consumer finds out when it opens the file.
SourceFails ==
    /\ pc = "poll"
    /\ Present
    /\ source' \in {"absent", "unreadable"}
    /\ UNCHANGED <<workload, pc, exit_code, file, written, truncated, db,
                   last_position, pos, messages_processed, periodic_reports,
                   final_reports, final_report, delivered, last>>

\* ------------------------------------------------------------------- main
\* The statuses of sys.exit: the configuration cannot be read, the prior
\* database cannot be deleted, init_db fails, the source file is not found,
\* and any other Exception inside a poll.
EXIT_CONFIG == 1
EXIT_UNLINK == 2
EXIT_INIT_DB == 3
EXIT_FILE_NOT_FOUND == 10
EXIT_POLL_ERROR == 11

Exit(code) ==
    /\ pc' = "exited"
    /\ exit_code' = code

\* STEP 1: the configuration is read, or sys.exit(1).
ReadConfig ==
    /\ pc = "config"
    /\ \/ pc' = "unlink" /\ UNCHANGED exit_code
       \/ Exit(EXIT_CONFIG)
    /\ UNCHANGED <<workload, source, file, written, truncated, db, last_position, pos,
                   messages_processed, periodic_reports, final_reports,
                   final_report, delivered, last>>

\* sqlite_path.unlink(): there is no database file any more.  Connecting
\* to a missing file creates an empty database, and the model does not tell
\* a missing table from an empty one, so this is the value of init_db.
unlink(d) == init_db

\* init_db on database d: CREATE TABLE IF NOT EXISTS all_messages and
\* category_stats, which leaves tables that exist, and their rows, alone.
init_db_on(d) == d

\* Mutant: STEP 2 leaves the prior database file where it is.
DeletePriorDbKeepsFile ==
    /\ pc = "unlink"
    /\ pc' = "init"
    /\ UNCHANGED <<workload, source, exit_code, file, written, truncated, db,
                   last_position, pos, messages_processed, periodic_reports,
                   final_reports, final_report, delivered, last>>

\* STEP 2: a prior database file is deleted, or sys.exit(2).
DeletePriorDb ==
    /\ pc = "unlink"
    /\ \/ pc' = "init" /\ db' = unlink(db) /\ UNCHANGED exit_code
       \/ db # init_db /\ Exit(EXIT_UNLINK) /\ UNCHANGED db
    /\ UNCHANGED <<workload, source, file, written, truncated, last_position, pos,
                   messages_processed, periodic_reports, final_reports,
                   final_report, delivered, last>>

\* STEP 3: init_db creates the tables, or sys.exit(3); STEP 4 starts with
\* last_position = 0.
InitDb ==
    /\ pc = "init"
    /\ \/ /\ pc' = "poll"
          /\ db' = init_db_on(db)
          /\ last_position' = 0
          /\ UNCHANGED exit_code
       \/ Exit(EXIT_INIT_DB) /\ UNCHANGED <<db, last_position>>
    /\ UNCHANGED <<workload, source, file, written, truncated, pos, messages_processed,
                   periodic_reports, final_reports, final_report, delivered, last>>

\* Mutant: a cursor beyond the end of the file is taken back to the start
\* of the file.
SeekWithinFile(p) == IF p > Len(file) THEN 0 ELSE p

\* file.seek(last_position): the read position is the offset given, whether
\* or not the file is that long.
Seek(p) == p

\* Mutant: a file that cannot be opened is taken for one with nothing new
\* in it, and the loop goes on.
PollPassesOverFault ==
    /\ pc = "poll"
    /\ pc' = "drain"
    /\ pos' = IF Present THEN last_position ELSE Len(file)
    /\ messages_processed' = 0
    /\ UNCHANGED <<workload, source, exit_code, file, written, truncated, db,
                   last_position, periodic_reports, final_reports, final_report,
                   delivered, last>>

\* time.sleep(interval_secs) is over (after the first poll) and
\* consume_messages_from_file is called: the file is opened and the read
\* position set to last_position, or the open fails with sys.exit(10) (no
\* such file) or sys.exit(11) (any other error).
Poll ==
    /\ pc = "poll"
    /\ \/ /\ Present
          /\ pc' = "drain"
          /\ pos' = Seek(last_position)
          /\ messages_processed' = 0
          /\ UNCHANGED exit_code
       \/ /\ source = "absent"
          /\ Exit(EXIT_FILE_NOT_FOUND)
          /\ UNCHANGED <<pos, messages_processed>>
       \/ /\ source = "unreadable"
          /\ Exit(EXIT_POLL_ERROR)
          /\ UNCHANGED <<pos, messages_processed>>
    /\ UNCHANGED <<workload, source, file, written, truncated, db, last_position,
                   periodic_reports, final_reports, final_report, delivered, last>>

\* Mutant: the position is reported as no more than the file's length.
TellWithinFile(p) == IF p > Len(file) THEN Len(file) ELSE p

\* file.tell() once the iteration is over.
Tell(p) == p

\* The loop over the file's lines has reached the end of the file:
\* last_position = file.tell() is returned to main.
DrainReturns ==
    /\ pc = "drain"
    /\ pos >= Len(file)
    /\ last_position' = Tell(pos)
    /\ pc' = "poll"
    /\ UNCHANGED <<workload, source, exit_code, file, written, truncated, db, pos,
                   messages_processed, periodic_reports, final_reports,
                   final_report, delivered, last>>

\* The line that the loop reads next, and its text after strip().
NextLine == ReadLine(file, pos)
NextText == Strip(NextLine)

\* History: how the loop handled the line, the database and the counter
\* before it, and the point at which insert_message stopped (0: not called).
Handled(outcome, stop) ==
    [outcome |-> outcome, text |-> NextText, end |-> pos + Len(NextLine),
     pre |-> db, count |-> messages_processed, stop |-> stop]

\* History: the text handed to json.loads, the offset of its line, whether
\* the line as read ended with a terminator, the number of rows of
\* all_messages at that time, and how the loop handled the line.
Delivery(outcome) ==
    [text |-> NextText, start |-> pos,
     terminated |-> NextLine[Len(NextLine)].k = "nl",
     rows |-> Len(db.all_messages),
     outcome |-> outcome]

\* A line that is empty after strip() is passed over.
DrainBlank ==
    /\ pc = "drain"
    /\ pos < Len(file)
    /\ NextText = <<>>
    /\ pos' = pos + Len(NextLine)
    /\ last' = Handled("blank", 0)
    /\ UNCHANGED <<workload, source, pc, exit_code, file, written, truncated, db, last_position,
                   messages_processed, periodic_reports, final_reports,
                   final_report, delivered>>

\* Mutant: JSONDecodeError is not caught in the loop and reaches the
\* handler of the poll, which calls sys.exit(11).
DrainDecodeFaultFatal ==
    /\ pc = "drain"
    /\ pos < Len(file)
    /\ NextText # <<>>
    /\ ~IsJson(NextText)
    /\ Exit(EXIT_POLL_ERROR)
    /\ delivered' = Append(delivered, Delivery("decode_fault"))
    /\ last' = Handled("decode_fault", 0)
    /\ UNCHANGED <<workload, source, file, written, truncated, db, last_position, pos,
                   messages_processed, periodic_reports, final_reports,
                   final_report>>

\* json.loads raises JSONDecodeError: the error is logged and the loop
\* goes on.
DrainDecodeFault ==
    /\ pc = "drain"
    /\ pos < Len(file)
    /\ NextText # <<>>
    /\ ~IsJson(NextText)
    /\ pos' = pos + Len(NextLine)
    /\ delivered' = Append(delivered, Delivery("decode_fault"))
    /\ last' = Handled("decode_fault", 0)
    /\ UNCHANGED <<workload, source, pc, exit_code, file, written, truncated, db, last_position,
                   messages_processed, periodic_reports, final_reports,
                   final_report>>

\* process_message returns None: nothing is inserted.
DrainRejected ==
    /\ pc = "drain"
    /\ pos < Len(file)
    /\ NextText # <<>>
    /\ IsJson(NextText)
    /\ process_message_raises(json_loads(NextText))
    /\ pos' = pos + Len(NextLine)
    /\ delivered' = Append(delivered, Delivery("rejected"))
    /\ last' = Handled("rejected", 0)
    /\ UNCHANGED <<workload, source, pc, exit_code, file, written, truncated, db, last_position,
                   messages_processed, periodic_reports, final_reports,
                   final_report>>

\* The line reaches insert_message.
Insertable ==
    /\ pc = "drain"
    /\ pos < Len(file)
    /\ NextText # <<>>
    /\ IsJson(NextText)
    /\ ~process_message_raises(json_loads(NextText))

NextMessage == process_message(json_loads(NextText))

\* insert_message returns: the counter goes up and every tenth message logs
\* the category analytics.
DrainStored ==
    /\ Insertable
    /\ Raised(NextMessage, NoEvent) = "none"
    /\ db' = insert_message(db, NextMessage, NoEvent)
    /\ messages_processed' = messages_processed + 1
    /\ periodic_reports' =
          IF (messages_processed + 1) % ReportEvery = 0
          THEN periodic_reports + 1 ELSE periodic_reports
    /\ pos' = pos + Len(NextLine)
    /\ delivered' = Append(delivered, Delivery("stored"))
    /\ last' = Handled("stored", ReturnPoint)
    /\ UNCHANGED <<workload, source, pc, exit_code, file, written, truncated, last_position,
                   final_reports, final_report>>

\* insert_message raises an Exception: the handler of the poll logs it and
\* calls sys.exit(11).
DrainStorageFault ==
    /\ Insertable
    /\ \E e \in Events :
          /\ Raised(NextMessage, e) = "fault"
          /\ db' = insert_message(db, NextMessage, e)
          /\ last' = Handled("storage_fault", StopPoint(NextMessage, e))
    /\ Exit(EXIT_POLL_ERROR)
    /\ delivered' = Append(delivered, Delivery("storage_fault"))
    /\ UNCHANGED <<workload, source, file, written, truncated, last_position, pos,
                   messages_processed, periodic_reports, final_reports,
                   final_report>>

\* KeyboardInterrupt arrives inside insert_message and reaches main.
DrainInterrupted ==
    /\ Insertable
    /\ \E e \in Events :
          /\ Raised(NextMessage, e) = "interrupt"
          /\ db' = insert_message(db, NextMessage, e)
          /\ last' = Handled("interrupted", StopPoint(NextMessage, e))
    /\ pc' = "interrupted"
    /\ delivered' = Append(delivered, Delivery("interrupted"))
    /\ UNCHANGED <<workload, source, exit_code, file, written, truncated, last_position, pos,
                   messages_processed, periodic_reports, final_reports,
                   final_report>>

\* KeyboardInterrupt arrives between lines, or while main sleeps or opens
\* the file.
Interrupt ==
    /\ pc \in {"poll", "drain"}
    /\ pc' = "interrupted"
    /\ UNCHANGED <<workload, source, exit_code, file, written, truncated, db, last_position, pos,
                   messages_processed, periodic_reports, final_reports,
                   final_report, delivered, last>>

\* Mutant: main returns on KeyboardInterrupt without the final analytics.
ShutdownWithoutReport ==
    /\ pc = "interrupted"
    /\ Exit(0)
    /\ UNCHANGED <<workload, source, file, written, truncated, db, last_position, pos,
                   messages_processed, periodic_reports, final_reports,
                   final_report, delivered, last>>

\* main's handler of KeyboardInterrupt logs the final analytics; main then
\* returns.
Shutdown ==
    /\ pc = "interrupted"
    /\ \E rows \in get_category_analytics(db) : final_report' = rows
    /\ final_reports' = final_reports + 1
    /\ Exit(0)
    /\ UNCHANGED <<workload, source, file, written, truncated, db, last_position, pos,
                   messages_processed, periodic_reports, delivered, last>>

Next ==
    \/ ProducerStartsLine
    \/ ProducerContinuesLine
    \/ SourceFails
    \/ ReadConfig
    \/ DeletePriorDb
    \/ InitDb
    \/ Poll
    \/ DrainReturns
    \/ DrainBlank
    \/ DrainDecodeFault
    \/ DrainRejected
    \/ DrainStored
    \/ DrainStorageFault
    \/ DrainInterrupted
    \/ Interrupt
    \/ Shutdown

\* The consumer tails a file that only grows.
Spec == Init /\ [][Next]_vars

\* The consumer tails a file that also shrinks.
InitCut == Start({{HeadOf(1), HeadOf(6), NL}})
NextCut == Next \/ Truncate
SpecCut == InitCut /\ [][NextCut]_vars

\* The consumer tails a file to which whole lines of one valid record are
\* appended, enough of them for the every-tenth-message branch.
InitLines == Start({{HeadOf(1)}})
NextLines ==
    \/ ProducerWritesLine
    \/ SourceFails
    \/ ReadConfig
    \/ DeletePriorDb
    \/ InitDb
    \/ Poll
    \/ DrainReturns
    \/ DrainStored
    \/ DrainStorageFault
    \/ DrainInterrupted
    \/ Interrupt
    \/ Shutdown
SpecLines == InitLines /\ [][NextLines]_vars

\* ----------------------------------------------------------------- claims
\* The offset at which the unterminated last line of file f starts.
PartialStart(f) ==
    LET ends == {q \in 1..Len(f) : f[q].k = "nl"}
    IN  IF ends = {} THEN 0 ELSE CHOOSE q \in ends : \A x \in ends : x <= q

\* The stripped texts of the terminated, non-blank lines of file f, in
\* file order.
RECURSIVE CompleteLinesFrom(_, _)
CompleteLinesFrom(f, p) ==
    IF p >= PartialStart(f) THEN <<>>
    ELSE LET line == ReadLine(f, p)
             rest == CompleteLinesFrom(f, p + Len(line))
         IN  IF Strip(line) = <<>> THEN rest ELSE <<Strip(line)>> \o rest

CompleteLines(f) == CompleteLinesFrom(f, 0)

DeliveredTexts == [i \in 1..Len(delivered) |-> delivered[i].text]

IsPrefix(a, b) == Len(a) <= Len(b) /\ SubSeq(b, 1, Len(a)) = a

\* C1: while the file ends with a line that has no terminator, no poll
\* hands that line to json.loads and the cursor kept by main is not past
\* the offset at which the line starts.
PartialLineDeferral ==
    /\ \A i \in 1..Len(delivered) : delivered[i].terminated
    /\ ~AtLineStart(file) => last_position <= PartialStart(file)

\* C2: over a file that only grows, the lines handed to json.loads are, in
\* order, the complete non-blank lines of the file, none twice, none
\* missing and none in pieces: at any time a prefix of them, and all of
\* those before the cursor once a poll has returned.
DeliveredAreTheCompleteLines ==
    /\ IsPrefix(DeliveredTexts, CompleteLines(file))
    /\ pc = "poll" =>
          DeliveredTexts = CompleteLines(SubSeq(file, 1, last_position))

\* The rows of category table `name`, none when there is no such table.
RowsIn(d, name) == IF name \in DOMAIN d.tables THEN d.tables[name] ELSE <<>>

\* The six columns that all_messages and a category table share.
SharedColumns(r) ==
    <<r.message, r.author, r.timestamp, r.sentiment, r.keyword_mentioned,
      r.message_length>>

\* The message that the latest line decodes to.
LastMessage == process_message(json_loads(last.text))

\* Record m is the newest row of all_messages and of its category table,
\* with the same values in both.
StoredInBoth(d, m) ==
    LET master == d.all_messages
        part == RowsIn(d, table_name(m.category.s))
    IN  /\ master # <<>>
        /\ part # <<>>
        /\ SharedColumns(master[Len(master)]) = SharedColumns(m)
        /\ SharedColumns(part[Len(part)]) = SharedColumns(m)
        /\ master[Len(master)].category = m.category

\* No table holds a row that it did not hold in database `pre`, and the
\* statistics are those of `pre`.
Untouched(d, pre) ==
    /\ d.all_messages = pre.all_messages
    /\ \A n \in DOMAIN d.tables \cup DOMAIN pre.tables : RowsIn(d, n) = RowsIn(pre, n)
    /\ d.category_stats = pre.category_stats

\* C3, as claimed: after an insert_message that returns, the record is in
\* all_messages and in its category table with the same values; after one
\* that fails or is interrupted at any point, it is in neither table and
\* category_stats is unchanged.
DualWriteAtomic ==
    /\ last.outcome = "stored" => StoredInBoth(db, LastMessage)
    /\ last.outcome \in {"storage_fault", "interrupted"} => Untouched(db, last.pre)

\* C3, amended: as claimed for a call that returns and for a call that
\* fails or is interrupted before conn.commit() has completed; a call
\* interrupted after the commit (at the log line) leaves the record in both
\* tables with the same values and the category's count one higher.
DualWriteAtomicUntilCommit ==
    /\ last.outcome = "stored" => StoredInBoth(db, LastMessage)
    /\ (last.outcome \in {"storage_fault", "interrupted"} /\ last.stop <= AtCommit)
          => Untouched(db, last.pre)
    /\ (last.outcome = "interrupted" /\ last.stop = AtLog) =>
          /\ StoredInBoth(db, LastMessage)
          /\ Len(db.all_messages) = Len(last.pre.all_messages) + 1
          /\ db.category_stats[LastMessage.category].message_count =
                Len(RowsOf(db, LastMessage.category))

\* C3 witness: a call interrupted between the INSERT into all_messages and
\* the INSERT into the category table, with a record stored before it.
InterruptedBetweenTheInserts ==
    /\ last.outcome = "interrupted"
    /\ last.stop = AtPartition
    /\ Len(last.pre.all_messages) = 1

\* C4: for every category, the category_stats row counts the all_messages
\* rows of the category and holds the mean of their sentiments, in every
\* committed state of the database.
StatsCorrect ==
    \A c \in Categories(db) \cup DOMAIN db.category_stats :
        /\ c \in DOMAIN db.category_stats
        /\ db.category_stats[c].message_count = Len(RowsOf(db, c))
        /\ db.category_stats[c].avg_sentiment.den > 0
        /\ db.category_stats[c].avg_sentiment.num * Len(RowsOf(db, c)) =
              SumSentiment(RowsOf(db, c)) * db.category_stats[c].avg_sentiment.den

\* C4 witness: two records of one category with different sentiments are
\* stored, and the statistics hold count 2 and mean 14/2.
TwoHumorRecordsCounted ==
    /\ Len(RowsOf(db, Humor)) = 2
    /\ db.category_stats[Humor].message_count = 2
    /\ db.category_stats[Humor].avg_sentiment = [num |-> 14, den |-> 2]

\* C5: a decoded record without the author key is dropped: the loop handles
\* it as a rejection and goes on, and the database is what it was before
\* the line (no row, no table, no statistics).  A KeyboardInterrupt that
\* arrives while the line is handled is not counted against the claim.
MissingAuthorDropped ==
    (/\ IsJson(last.text)
     /\ json_loads(last.text).author.t = "absent"
     /\ last.outcome # "interrupted")
        => (last.outcome = "rejected" /\ db = last.pre)

\* A record that the Normalizer accepts and the tables can hold.
ValidRecord(message) ==
    /\ message.message.t = "str"
    /\ message.author.t = "str"
    /\ message.timestamp.t = "str"
    /\ message.category.t = "absent" \/
          (/\ message.category.t = "str"
           /\ IsIdentifier(table_name(message.category.s))
           /\ table_name(message.category.s) # StatsTable)
    /\ message.sentiment.t = "absent" \/ Converts(message.sentiment)
    /\ message.message_length.t = "absent" \/ Converts(message.message_length)

\* The number of all_messages rows once the i-th delivered line is handled.
RowsAfter(i) ==
    IF i < Len(delivered) THEN delivered[i + 1].rows ELSE Len(db.all_messages)

\* C6: a line that json.loads refuses changes no table and does not stop
\* the loop: within its poll the loop stands right after it with the
\* success counter unchanged, the cursor that the poll returns is past it
\* (it is not read again), and when the line handed to json.loads after it
\* is a valid record, that record is stored unless a storage fault or an
\* interrupt hits its insert, so that exactly one row is added.
DecodeFaultIsolated ==
    /\ (last.text # <<>> /\ ~IsJson(last.text)) =>
          /\ last.outcome = "decode_fault"
          /\ db = last.pre
          /\ pos >= last.end
          /\ (pc = "drain" /\ last_position < last.end) =>
                (pos = last.end /\ messages_processed = last.count)
          /\ pc = "poll" => last_position >= last.end
    /\ \A i \in 1..Len(delivered) :
          ~IsJson(delivered[i].text) =>
              /\ delivered[i].outcome = "decode_fault"
              /\ RowsAfter(i) = delivered[i].rows
              /\ (/\ i < Len(delivered)
                  /\ IsJson(delivered[i + 1].text)
                  /\ ValidRecord(json_loads(delivered[i + 1].text))
                  /\ delivered[i + 1].outcome \notin {"storage_fault", "interrupted"})
                    => (/\ delivered[i + 1].outcome = "stored"
                        /\ RowsAfter(i + 1) = delivered[i].rows + 1)

\* C6 witness: a malformed line and the valid line after it have been
\* handled in the first poll, and one record is stored.
JunkThenValidStored ==
    /\ Len(delivered) = 2
    /\ delivered[1].text = <<Junk>>
    /\ delivered[1].terminated
    /\ last.outcome = "stored"
    /\ last_position = 0
    /\ Len(db.all_messages) = 1

\* The records that the claim says the Normalizer rejects: no message key,
\* a sentiment that float() refuses, a message_length that int() refuses.
ClaimedRejection(message) ==
    \/ message.message.t = "absent"
    \/ message.sentiment.t # "absent" /\ ~Converts(message.sentiment)
    \/ message.message_length.t # "absent" /\ ~Converts(message.message_length)

\* C7: a record that the Normalizer rejects is handled as a rejection: the
\* database is what it was before the line, within its poll the loop
\* stands right after the line with the success counter unchanged, the
\* lines after it are handled with the number of stored rows that it found,
\* and the cursor that the poll returns is past the line.
RejectionIsolated ==
    /\ (IsJson(last.text) /\ ClaimedRejection(json_loads(last.text))) =>
          /\ last.outcome = "rejected"
          /\ db = last.pre
          /\ pos >= last.end
          /\ (pc = "drain" /\ last_position < last.end) =>
                (pos = last.end /\ messages_processed = last.count)
          /\ pc = "poll" => last_position >= last.end
    /\ \A i \in 1..Len(delivered) :
          (IsJson(delivered[i].text) /\ ClaimedRejection(json_loads(delivered[i].text)))
              => (delivered[i].outcome = "rejected" /\ RowsAfter(i) = delivered[i].rows)

\* C7 witness: a record with a sentiment that is no number has been
\* rejected and the valid record after it stored, in the first poll.
BadSentimentThenValidStored ==
    /\ Len(delivered) = 2
    /\ delivered[1].text = <<HeadOf(6), TailOf(6)>>
    /\ last.outcome = "stored"
    /\ last_position = 0
    /\ messages_processed = 1
    /\ Len(db.all_messages) = 1

\* The rows are in the one order that the claim names: by message_count
\* descending and, for equal counts, by category name ascending.
TotallyOrdered(rows) ==
    \A i, j \in 1..Len(rows) :
        i < j =>
            \/ rows[i].message_count > rows[j].message_count
            \/ /\ rows[i].message_count = rows[j].message_count
               /\ TextLess(rows[i].category.s, rows[j].category.s)

\* C8: the list that get_category_analytics returns holds one row for each
\* category that has a row in all_messages, ordered by message_count
\* descending and, for equal counts, by category name ascending (checked
\* on the list of the final analytics block).
AnalyticsInTotalOrder ==
    final_reports = 1 =>
        /\ {final_report[i].category : i \in 1..Len(final_report)} = Categories(db)
        /\ Len(final_report) = Cardinality(Categories(db))
        /\ TotallyOrdered(final_report)

\* C9: the cursor that a poll returns is at least the cursor that it was
\* given, so main's cursor never decreases, whether the file grows or
\* shrinks.
CursorMonotonic == [][last_position' >= last_position]_vars

\* C9 witness: a poll has been opened with a cursor beyond the end of a
\* file that was cut short.
PollBeyondEndOfFile ==
    /\ truncated
    /\ pc = "drain"
    /\ pos = last_position
    /\ last_position > Len(file)

\* The all_messages rows that belong to category table `name`.
PartitionOf(d, name) ==
    SelectSeq(d.all_messages, LAMBDA r : table_name(r.category.s) = name)

\* No insert is half-applied in database d: every row of all_messages is in
\* its category table with the same values, no category table holds
\* anything else, and every category is counted in category_stats.
FullyApplied(d) ==
    /\ \A c \in Categories(d) : table_name(c.s) \in DOMAIN d.tables
    /\ \A n \in DOMAIN d.tables :
          /\ Len(d.tables[n]) = Len(PartitionOf(d, n))
          /\ \A i \in 1..Len(d.tables[n]) :
                SharedColumns(d.tables[n][i]) = SharedColumns(PartitionOf(d, n)[i])
    /\ \A c \in Categories(d) \cup DOMAIN d.category_stats :
          /\ c \in DOMAIN d.category_stats
          /\ d.category_stats[c].message_count = Len(RowsOf(d, c))

\* C10: after a KeyboardInterrupt (between lines, in the sleep, or inside
\* insert_message) no insert is half-applied; the final analytics block is
\* logged once, before the process ends with main returning, and its rows
\* are those of the committed database.
FinalReportOnInterrupt ==
    /\ final_reports <= 1
    /\ pc = "interrupted" =>
          (final_reports = 0 /\ exit_code = -1 /\ FullyApplied(db))
    /\ (pc = "exited" /\ exit_code = 0) =>
          /\ final_reports = 1
          /\ final_report \in get_category_analytics(db)
          /\ FullyApplied(db)

\* C10 witness: the process has ended after an interrupt that arrived
\* inside insert_message, after both INSERTs, with one record stored
\* before it and reported.
ReportedAfterInterruptedInsert ==
    /\ pc = "exited"
    /\ exit_code = 0
    /\ last.outcome = "interrupted"
    /\ last.stop = AtStats
    /\ final_reports = 1
    /\ Len(final_report) = 1

\* C11: every class of fatal fault ends the run with an exit status of its
\* own; a run ended by a storage fault (insert_message or
\* create_category_table raising) has a status different from the status of
\* a missing source file, of an unreadable source file and of a
\* configuration fault.
StorageFaultStatusDistinct ==
    (pc = "exited" /\ last.outcome = "storage_fault")
        => exit_code \notin {EXIT_CONFIG, EXIT_FILE_NOT_FOUND, EXIT_POLL_ERROR}

\* The labels of the records that the producer writes (and the default
\* label), each with the partition identifier that the claim gives it.
LabelIdentifiers ==
    { <<Humor.s, <<"h", "u", "m", "o", "r">> >>,
      <<News.s, <<"n", "e", "w", "s">> >>,
      <<DefaultCategory.s, <<"o", "t", "h", "e", "r">> >>,
      <<PopCulture.s, <<"p", "o", "p", "_", "c", "u", "l", "t", "u", "r", "e">> >>,
      <<pop_culture.s, <<"p", "o", "p", "_", "c", "u", "l", "t", "u", "r", "e">> >>,
      <<ESports.s, <<"e", "_", "s", "p", "o", "r", "t", "s">> >>,
      <<MemeBang.s, <<"m", "e", "m", "e", "!">> >> }

Labels == {p[1] : p \in LabelIdentifiers}
IdentifierOf(label) == (CHOOSE p \in LabelIdentifiers : p[1] = label)[2]
PartitionTable(label) ==
    <<"c", "a", "t", "e", "g", "o", "r", "y", "_">> \o IdentifierOf(label)

\* C12: the partition identifier is a function of the label alone: the
\* label with upper-case letters lower-cased and each space and hyphen
\* replaced by an underscore, every other character unchanged.  For the
\* label of a record that has reached insert_message,
\* create_category_table and insert_message compute that identifier and the
\* table name category_<identifier>, so a record that is stored is the
\* newest row of that table, which exists, and no other category table has
\* changed.
PartitionIdentifierAgrees ==
    /\ (last.stop > 0 /\ LastMessage.category.t = "str") =>
          LET label == LastMessage.category.s
          IN  /\ safe_category(label) = IdentifierOf(label)
              /\ insert_message_safe_category(label) = IdentifierOf(label)
              /\ table_name(label) = PartitionTable(label)
              /\ insert_message_table_name(label) = PartitionTable(label)
    /\ last.outcome = "stored" =>
          LET name == PartitionTable(LastMessage.category.s)
          IN  /\ name \in DOMAIN db.tables
              /\ Len(db.tables[name]) = Len(RowsIn(last.pre, name)) + 1
              /\ SharedColumns(db.tables[name][Len(db.tables[name])])
                    = SharedColumns(LastMessage)
              /\ \A n \in DOMAIN db.tables \ {name} :
                    db.tables[n] = RowsIn(last.pre, n)

\* C12 witness: a record labelled "Pop Culture" has been stored and is the
\* one row of the table category_pop_culture.
PopCultureStored ==
    /\ last.outcome = "stored"
    /\ LastMessage.category = PopCulture
    /\ Len(db.tables[<<"c", "a", "t", "e", "g", "o", "r", "y", "_",
                       "p", "o", "p", "_", "c", "u", "l", "t", "u", "r", "e">>]) = 1

\* C13: create_category_table is idempotent.  For the label of a record
\* that has reached insert_message and whose table name SQLite accepts: a
\* call for a table that exists leaves every table and every row as it
\* was, in the database before the record and in the database after it;
\* two calls in a row leave what one call leaves; the table exists once
\* the call has returned; and the rows that the table held before the
\* record are still its first rows after it.
CreateCategoryTableIdempotent ==
    (/\ last.stop > 0
     /\ LastMessage.category.t = "str"
     /\ ~create_category_table_raises(LastMessage.category))
        => LET category == LastMessage.category
               name == table_name(category.s)
               once == create_category_table(last.pre, category)
           IN  /\ create_category_table(once, category) = once
               /\ name \in DOMAIN last.pre.tables => once = last.pre
               /\ name \in DOMAIN db.tables => create_category_table(db, category) = db
               /\ last.stop > AtCreate => name \in DOMAIN db.tables
               /\ IsPrefix(RowsIn(last.pre, name), RowsIn(db, name))

\* C13 witness: a second record labelled humor has been stored: its call of
\* create_category_table found the table with one row, and the table now
\* holds two.
HumorTableEnsuredTwice ==
    /\ last.outcome = "stored"
    /\ LastMessage.category = Humor
    /\ Len(RowsIn(last.pre, table_name(Humor.s))) = 1
    /\ Len(db.tables[table_name(Humor.s)]) = 2

\* C14: the count of stored records is kept for the whole run, across
\* polls, and an analytics block is logged exactly when it reaches a
\* multiple of ten: while the run goes on, the number of blocks logged is
\* the number of stored records divided by ten, however the records are
\* spread over polls.
ReportsFollowRunWideCount ==
    pc \in {"poll", "drain"} =>
        periodic_reports = Len(db.all_messages) \div ReportEvery

\* The valid records among the complete lines of the first p units of the
\* file.
ValidLinesBefore(p) ==
    SelectSeq(CompleteLines(SubSeq(file, 1, p)),
              LAMBDA t : IsJson(t) /\ ValidRecord(json_loads(t)))

\* C15: polls follow one another for as long as no fault and no interrupt
\* ends the run, and every complete line of the file is consumed and, when
\* it is a valid record, stored.  In the form that a finite run settles:
\* whenever a poll has returned, with no fault and no interrupt so far,
\* every valid record on a complete line that ends at or before the cursor
\* has its row in all_messages.
ConsumedValidLinesStored ==
    pc = "poll" => Len(db.all_messages) >= Len(ValidLinesBefore(last_position))

\* C16: a transport fault is terminal and is not retried.  When the source
\* file is absent or unreadable as a poll starts, that poll ends the run
\* (with the status of its fault) instead of sleeping and trying again; it
\* handles no line, leaves the database and the cursor as they were, and no
\* analytics block, periodic or final, is logged; and nothing happens in a
\* run that has ended.
TransportFaultTerminal ==
    [][/\ (pc = "poll" /\ ~Present /\ pc' \notin {"poll", "interrupted"}) =>
             /\ pc' = "exited"
             /\ exit_code' = IF source = "absent" THEN EXIT_FILE_NOT_FOUND
                             ELSE EXIT_POLL_ERROR
             /\ UNCHANGED <<db, delivered, last, last_position, pos,
                            periodic_reports, final_reports, final_report>>
             /\ final_reports = 0
       /\ pc = "exited" => UNCHANGED vars]_vars

\* C16 witness: the file has vanished after a record was stored from it and
\* while it held a line not yet read; the run has ended with the status of
\* a missing file, one row stored and no final analytics block.
EndedByMissingFile ==
    /\ pc = "exited"
    /\ source = "absent"
    /\ exit_code = EXIT_FILE_NOT_FOUND
    /\ Len(db.all_messages) = 1
    /\ last_position < Len(file)
    /\ final_reports = 0

\* Sequence a is the beginning of sequence b, or all of it.
Extends(b, a) == IsPrefix(a, b)

\* C17: startup goes in one order: the configuration is read, then the
\* prior database is deleted and the schema created, and only then does
\* tailing begin, with cursor 0 and with all_messages and category_stats
\* (and the set of category tables) empty.  A configuration fault ends the
\* run with the database as it was found and before any poll; no line is
\* read before the first poll; and once tailing has begun no table is ever
\* emptied or dropped again.
StartupOrder ==
    [][/\ pc = "config" =>
             /\ db' = db
             /\ pc' \in {"config", "unlink", "exited"}
             /\ pc' = "exited" => exit_code' = EXIT_CONFIG
       /\ pc = "unlink" => pc' \in {"unlink", "init", "exited"}
       /\ pc = "init" => pc' \in {"init", "poll", "exited"}
       /\ pc \in {"config", "unlink", "init"} =>
             /\ delivered' = <<>>
             /\ last' = NoLine
             /\ last_position' = 0
             /\ pos' = 0
       /\ (pc = "init" /\ pc' = "poll") =>
             /\ db'.all_messages = <<>>
             /\ DOMAIN db'.category_stats = {}
             /\ DOMAIN db'.tables = {}
       /\ pc \in {"poll", "drain", "interrupted", "exited"} =>
             /\ pc' \notin {"config", "unlink", "init"}
             /\ Extends(db'.all_messages, db.all_messages)
             /\ DOMAIN db.category_stats \subseteq DOMAIN db'.category_stats
             /\ \A n \in DOMAIN db.tables :
                   n \in DOMAIN db'.tables /\ Extends(db'.tables[n], db.tables[n])]_vars

\* C17 witness: the first poll is under way over a file that holds a line,
\* at offset 0, and the database is empty.
FirstPollOverEmptyStorage ==
    /\ pc = "drain"
    /\ pos = 0
    /\ last_position = 0
    /\ delivered = <<>>
    /\ Len(file) > 0
    /\ db = init_db

\* The positions of the all_messages rows of database d whose label has the
\* partition table `name`.
RowsNormalizingTo(d, name) ==
    {i \in 1..Len(d.all_messages) :
        PartitionTable(d.all_messages[i].category.s) = name}

\* C18: the category tables are keyed by the normalized identifier,
\* all_messages and category_stats by the raw label.  In every state each
\* table category_<p> holds as many rows as all_messages holds rows whose
\* label normalizes to p, whatever their raw labels, and every such row has
\* its table; category_stats has one row per raw label, with that label's
\* own count, so labels that differ only in case, space or hyphen share a
\* table and have separate statistics rows.
PartitionsByIdentifier ==
    /\ \A n \in DOMAIN db.tables :
          Len(db.tables[n]) = Cardinality(RowsNormalizingTo(db, n))
    /\ \A i \in 1..Len(db.all_messages) :
          PartitionTable(db.all_messages[i].category.s) \in DOMAIN db.tables
    /\ DOMAIN db.category_stats = Categories(db)
    /\ \A c \in DOMAIN db.category_stats :
          db.category_stats[c].message_count = Len(RowsOf(db, c))

\* C18 witness: one record labelled "Pop Culture" and one labelled
\* "pop-culture" are stored: the table category_pop_culture holds two rows
\* and category_stats holds a row of count 1 for each of the two labels.
TwoLabelsOnePartition ==
    /\ Len(db.all_messages) = 2
    /\ Categories(db) = {PopCulture, pop_culture}
    /\ Len(RowsIn(db, PartitionTable(PopCulture.s))) = 2
    /\ DOMAIN db.tables = {PartitionTable(pop_culture.s)}
    /\ DOMAIN db.category_stats = {PopCulture, pop_culture}
    /\ db.category_stats[PopCulture].message_count = 1
    /\ db.category_stats[pop_culture].message_count = 1

\* The rows of all_messages whose label has the partition table `name`, in
\* the order of all_messages.
MasterRowsOf(d, name) ==
    SelectSeq(d.all_messages, LAMBDA r : PartitionTable(r.category.s) = name)

\* The i-th delivered line has added a row to all_messages.
AddedRow(i) == RowsAfter(i) = delivered[i].rows + 1

\* C19: records are stored in file order.  Lines are handled by increasing
\* offset, within a poll and from one poll to the next; a line that adds a
\* row adds it at the end of all_messages, with the next id and with the
\* values of that line, so that of two stored records the one earlier in
\* the file has the smaller id; ids count up from 1 in all_messages and in
\* every category table; and the rows of a category table are the rows of
\* its partition in the order that they have in all_messages.
StoredInFileOrder ==
    /\ \A i, j \in 1..Len(delivered) :
          i < j => /\ delivered[i].start < delivered[j].start
                   /\ delivered[i].rows <= delivered[j].rows
                   /\ AddedRow(i) => delivered[i].rows < delivered[j].rows
    /\ \A i \in 1..Len(delivered) :
          AddedRow(i) =>
              LET row == db.all_messages[delivered[i].rows + 1]
                  m == process_message(json_loads(delivered[i].text))
              IN  /\ row.id = delivered[i].rows + 1
                  /\ SharedColumns(row) = SharedColumns(m)
                  /\ row.category = m.category
    /\ \A k \in 1..Len(db.all_messages) : db.all_messages[k].id = k
    /\ \A n \in DOMAIN db.tables :
          /\ Len(db.tables[n]) = Len(MasterRowsOf(db, n))
          /\ \A k \in 1..Len(db.tables[n]) :
                /\ db.tables[n][k].id = k
                /\ SharedColumns(db.tables[n][k]) = SharedColumns(MasterRowsOf(db, n)[k])

\* C19 witness: two different records labelled humor, the first at offset 0
\* and the second after it, stored by two different polls: they are rows 1
\* and 2 of all_messages and of category_humor, in that order.
TwoPollsKeepFileOrder ==
    /\ Len(delivered) = 2
    /\ delivered[1].text = <<HeadOf(1), TailOf(1)>>
    /\ delivered[2].text = <<HeadOf(3), TailOf(3)>>
    /\ last.outcome = "stored"
    /\ last.count = 0
    /\ Len(db.all_messages) = 2
    /\ db.all_messages[1].author = Alice
    /\ db.all_messages[2].author = Bob
    /\ db.tables[PartitionTable(Humor.s)][1].author = Alice
    /\ db.tables[PartitionTable(Humor.s)][2].author = Bob

\* C20: a file cut to less than the cursor does not move the cursor back.
\* A poll starts reading at the cursor whatever the file's length; while
\* the file is no longer than the read position no line is handled and the
\* database stays as it is; a poll that returns having found the file
\* shorter than the cursor returns the cursor it was given; the cursor is
\* never lowered; and every line that is ever handed on starts at or after
\* the cursor, so that content written below the cursor is never ingested.
CursorHeldOverShrunkFile ==
    [][/\ (pc = "poll" /\ pc' = "drain") => pos' = last_position
       /\ (pc = "drain" /\ Len(file) <= pos) =>
             /\ pos' = pos
             /\ db' = db
             /\ delivered' = delivered
             /\ last' = last
       /\ (pc = "drain" /\ pos = last_position /\ Len(file) < pos /\ pc' = "poll")
             => last_position' = last_position
       /\ last_position' >= last_position
       /\ pc' = "drain" => pos' >= last_position'
       /\ delivered' # delivered =>
             /\ Len(delivered') = Len(delivered) + 1
             /\ delivered'[Len(delivered')].start >= last_position]_vars

\* C20 witness: the cursor stood at offset 1 when the file was cut to
\* nothing and a whole record written from offset 0; the poll after that
\* read from offset 1, the record's second half, and nothing of what lies
\* below the cursor: the one line handed to json.loads is that half, the
\* database is empty and the cursor is at the end of the file.
RegrownFileReadFromCursor ==
    /\ truncated
    /\ file = <<HeadOf(1), TailOf(1), NL>>
    /\ Len(delivered) = 1
    /\ delivered[1].text = <<TailOf(1)>>
    /\ delivered[1].start = 1
    /\ db.all_messages = <<>>
    /\ pc = "poll"
    /\ last_position = 3

====
